---- MODULE Spec2Model ----
(***************************************************************************)
(* RedisSubscriber (subscriber.py): the processor registry, the dispatch   *)
(* loop of process_message and the consume loop of start_listening, with   *)
(* the host program, the processors, the channel server and the interrupt  *)
(* signal as the environment (specification Spec); and the path of one     *)
(* webhook message through parse_whatsapp_message (utils/parser.py) and    *)
(* the two default processors (specification PipelineSpec); and           *)
(* extract_links as a function of the text (specification LinkSpec).       *)
(***************************************************************************)
EXTENDS Integers, Sequences, FiniteSets, TLC

\* ---------------------------------------------------------------- bounds
\* longest registry the model builds
MaxProcs == 3
\* number of messages handed to process_message (from the host or the channel)
MaxMsgs == 2
\* number of nested start_listening frames the interpreter allows
\* (the interpreter's recursion limit, scaled down)
RecursionLimit == 2
\* longest text, in tokens, that extract_links is applied to on its own
MaxText == 5
\* longest body, in characters, that the log processor is given on its own
MaxBody == 54
\* most webhook requests the handler serves one after the other
MaxEvents == 2

\* ------------------------------------------------------------ processors
\* the two processors the constructor installs by default
DefaultProcessors == <<"Email", "Log">>

\* processors supplied by the host program: A1 and A2 are two instances of
\* one class and therefore share a name
Custom == {"A1", "A2"}

ProcIds == Custom \cup {"Email", "Log"}

\* MessageProcessor.name: the class name of the instance
Name(p) ==
  CASE p = "Email" -> "EmailNotificationProcessor"
    [] p = "Log"   -> "LoggingProcessor"
    [] OTHER       -> "A"

\* names passed to remove_processor; "N" is the name of no processor
RemoveArgs == {"A", "LoggingProcessor", "N"}

\* arguments of the add_processor and remove_processor calls a processor
\* makes from inside process
InFlightAdds == {"A2"}
InFlightRemoves == {"A"}

\* lists the host passes to the constructor
CtorLists == {<< >>, <<"A1", "A2">>}

\* values of the links field of a published message
Links == {"", "u"}

\* what a call of process can end in: a return value, a fault derived from
\* Exception, KeyboardInterrupt (raised by the interrupt signal while the
\* processor runs), or another fault outside Exception such as SystemExit
Outcomes == {"true", "false", "exc", "kbint", "exit"}

NoMsg == [message_id |-> 0, links |-> ""]
NoOp == [kind |-> "none", arg |-> "", ret |-> FALSE]

\* what a call of _send_email finds: whether config holds both SMTP
\* credentials, and whether the SMTP session (connect, starttls, login,
\* sendmail, quit) goes through or raises
MailEnvs == [configured : BOOLEAN, smtp : {"ok", "fail"}]
NoEnv == [configured |-> FALSE, smtp |-> "none"]

VARIABLES
  processors,  \* self.processors
  pubsub,      \* self.pubsub is not None
  client,      \* self.redis_client: "none", "open", "closed"
  subscribed,  \* self.pubsub holds a subscription to the channel
  serverUp,    \* the channel server accepts connections
  pc,          \* where the single thread of control is
  caller,      \* who called process_message: "host" or "loop"
  depth,       \* nested start_listening frames
  stopCause,   \* why start_listening ended
  cur,         \* message_data, the dict handed to process_message
  idx,         \* position of the list iterator of the for loop
  nmsg,        \* messages handed to process_message so far
  msg0,        \* history: message_data as it was when the call began
  disp0,       \* history: self.processors as it was when the call began
  invoked,     \* history: processors invoked by the call, in order
  received,    \* history: the message value each of them was given
  pastRaise,   \* history: a processor raised and the dispatch went on
  lastOut,     \* history: outcome of the latest process call
  touched,     \* history: the registry was changed while the call ran
  fate,        \* history: how each message ended, in order: dispatched to
               \* completion for "host" or "loop", or dropped by the loop
               \* ("garbage", "nonobject", "faulted")
  confirmed,   \* the subscription's confirmation event was consumed
  op,          \* history: registry operation performed by the last step;
               \* at first the construction, with the list passed as arg
               \* and ret telling whether one was passed
  sends,       \* history: notifications handed to SMTP by the call
  skips,       \* history: notifications given up for missing credentials
  shared       \* self.processors is the list object the host passed to
               \* the constructor, which the host still holds

\* the webhook message on its way through the normalizer and the processors
VARIABLES
  raw,         \* the raw message of the webhook payload
  wpc,         \* how far the message got: "idle" (none under way),
               \* "received", "parsed", "stored", "published",
               \* "unpublished" (publish_message returned False), "failed"
               \* (the parser, the commit or the payload lookup raised)
  canon,       \* what parse_whatsapp_message returned
  logOut,      \* outcome of LoggingProcessor.process for canon
  mailOut,     \* outcome of EmailNotificationProcessor.process for canon
  mailEnv,     \* the credentials and the SMTP server as that call found them
  mailSends,   \* notifications that call handed to SMTP
  envelope,    \* the payload around the raw message: contact and ids
  stored,      \* the rows committed to whatsapp_messages
  channel,     \* the JSON texts handed to the channel, in order
  pubClient,   \* redis_publisher.redis_client is not None
  pubRet,      \* what publish_message returned
  response,    \* what the handler answered: "logged" or "error"
  broker,      \* the channel server accepts connections and publish calls
  events       \* webhook requests received so far

\* extract_links applied to a text, and to its own result
VARIABLES
  txt,         \* the argument: None or a string
  once,        \* extract_links(txt)
  twice,       \* extract_links(extract_links(txt))
  lpc          \* "idle", "start", "once", "twice"

\* the log processor rendering a body
VARIABLES
  logBody,         \* message_data['message_body']: absent, None, or a string
                   \* as the sequence of its characters
  truncated_body,  \* the rendering, or the mark that the call raised
  gpc              \* "idle", "start", "done"

loopVars == <<pubsub, client, subscribed, depth, stopCause, confirmed>>
mailVars == <<sends, skips>>
pipeVars == <<raw, wpc, canon, logOut, mailOut, mailEnv, mailSends>>
linkVars == <<txt, once, twice, lpc>>
hookVars == <<envelope, stored, channel, pubClient, pubRet, response, broker,
              events>>
logVars == <<logBody, truncated_body, gpc>>
webVars == <<pipeVars, hookVars, linkVars, logVars>>
heapVars == <<shared>>
histVars == <<msg0, disp0, invoked, received, pastRaise, lastOut, touched>>
vars == <<processors, pubsub, client, subscribed, serverUp, pc, caller, depth,
          stopCause, cur, idx, nmsg, msg0, disp0, invoked, received, pastRaise,
          lastOut, touched, fate, confirmed, op, sends, skips, raw, wpc,
          canon, logOut, mailOut, mailEnv, mailSends, envelope, stored,
          channel, pubClient, pubRet, response, txt, once, twice, lpc,
          shared, logBody, truncated_body, gpc, broker, events>>

\* ------------------------------------------------------------ construction
\* variant of RegistryAfterInit: "processors or defaults", an empty list
\* counts as no list
RegistryAfterInitOrDefault(given, list) ==
  IF ~given \/ list = << >> THEN DefaultProcessors ELSE list

\* RedisSubscriber.__init__: the registry chosen at construction
RegistryAfterInit(given, list) ==
  IF ~given THEN DefaultProcessors ELSE list

\* the arguments of the constructor: no list, or one of CtorLists
CtorArgs ==
  {[given |-> FALSE, list |-> << >>]}
    \cup {[given |-> TRUE, list |-> l] : l \in CtorLists}

\* the subscriber after RedisSubscriber(processors) with the server up or not
SubscriberInit(arg, up) ==
  /\ op = [kind |-> "init", arg |-> arg.list, ret |-> arg.given]
  /\ processors = RegistryAfterInit(arg.given, arg.list)
  /\ serverUp = up
  /\ pubsub = serverUp
  /\ client = IF serverUp THEN "open" ELSE "none"
  /\ subscribed = serverUp
  /\ pc = "setup"
  /\ caller = "host"
  /\ depth = 0
  /\ stopCause = "none"
  /\ cur = NoMsg
  /\ idx = 0
  /\ nmsg = 0
  /\ msg0 = NoMsg
  /\ disp0 = << >>
  /\ invoked = << >>
  /\ received = << >>
  /\ pastRaise = FALSE
  /\ lastOut = "none"
  /\ touched = FALSE
  /\ fate = << >>
  /\ confirmed = FALSE
  /\ sends = 0
  /\ skips = 0
  /\ shared = arg.given

\* ------------------------------------------------------ webhook messages
\* JSON values as the parser sees them.  A text is a sequence of tokens: the
\* token "http://" is a URL scheme, " " is whitespace, every other token is
\* a run of characters without whitespace and without a scheme.  None, a
\* string, and the mark of a key the dict does not have:
Null == [k |-> "null", v |-> << >>]
Str(t) == [k |-> "str", v |-> t]
Absent == [k |-> "absent", v |-> << >>]

\* a nested object of the raw message with its five possible keys, and the
\* marks of a nested key that is missing or holds null
Obj(id, mime, fname, caption, body) ==
  [k |-> "obj", id |-> id, mime_type |-> mime, filename |-> fname,
   caption |-> caption, body |-> body]
EmptyObj == Obj(Absent, Absent, Absent, Absent, Absent)
AbsentObj == [EmptyObj EXCEPT !.k = "absent"]
NullObj == [EmptyObj EXCEPT !.k = "null"]

\* bodies and captions of raw messages
Texts ==
  {<<"hi">>, <<" ", "hi">>, <<"see", " ", "http://", "a">>,
   <<"http://", "a", " ", "http://", "b">>}
Captions == {<<"look">>, <<"http://", "c">>}

\* the "text" object of a raw message
TextObjs == {Obj(Absent, Absent, Absent, Absent, b) :
               b \in {Absent} \cup {Str(t) : t \in Texts}}

\* the media object of a raw message
MediaObjs ==
  {Obj(id, mime, fname, cap, Absent) :
     id \in {Absent, Str(<<"m1">>)}, mime \in {Absent, Str(<<"mt">>)},
     fname \in {Absent, Str(<<"f.pdf">>)},
     cap \in {Absent, Str(<< >>)} \cup {Str(t) : t \in Captions}}

\* values of the "type" key of a raw message; Absent: the key is missing
RawTypes ==
  {Absent} \cup {Str(<<t>>) : t \in {"text", "image", "document", "sticker",
                                      "location"}}

\* the keys of a raw message that hold nested objects
ObjKeys == {"text", "image", "document"}

Raw(type, text, image, document) ==
  [type |-> type, text |-> text, image |-> image, document |-> document]

\* raw messages: any type, with or without a "text" object, and with at
\* most one of the objects "image" and "document"
RawMessages ==
  {Raw(t, x, m, AbsentObj) :
     t \in RawTypes, x \in TextObjs \cup {AbsentObj, NullObj},
     m \in MediaObjs \cup {AbsentObj, NullObj}}
  \cup
  {Raw(t, x, AbsentObj, d) :
     t \in RawTypes, x \in TextObjs \cup {AbsentObj, NullObj},
     d \in MediaObjs \cup {NullObj}}

\* the dict parse_whatsapp_message returns, or the mark that it raised
Canon(status, type, body, id, mime, fname, links) ==
  [status |-> status, message_type |-> type, message_body |-> body,
   media_id |-> id, mime_type |-> mime, filename |-> fname, links |-> links]

\* what the handler reads from the payload besides the message: whether
\* entry, changes, value, messages and contacts are all there, the wa_id and
\* name of the contact, and the id of the message
Envelope(ok, wa, name, id) ==
  [ok |-> ok, wa_id |-> wa, name |-> name, id |-> id]
GoodEnvelope == Envelope(TRUE, Str(<<"w1">>), Str(<<"n">>), Str(<<"id1">>))
Malformed == Envelope(FALSE, Absent, Absent, Absent)

NoRaw == Raw(Absent, AbsentObj, AbsentObj, AbsentObj)
NoCanon == Canon("none", Null, Null, Null, Null, Null, Null)
Raised == Canon("raised", Null, Null, Null, Null, Null, Null)

\* no webhook message is under way
PipelineIdle ==
  /\ raw = NoRaw
  /\ wpc = "idle"
  /\ canon = NoCanon
  /\ logOut = "none"
  /\ mailOut = "none"
  /\ mailEnv = NoEnv
  /\ mailSends = 0
  /\ envelope = Malformed
  /\ stored = << >>
  /\ channel = << >>
  /\ pubClient = FALSE
  /\ pubRet = "none"
  /\ response = "none"
  /\ broker = FALSE
  /\ events = 0

\* extract_links is not under study
LinksIdle ==
  /\ txt = Null
  /\ once = Null
  /\ twice = Null
  /\ lpc = "idle"

\* the log processor's rendering is not under study
LogIdle ==
  /\ logBody = Null
  /\ truncated_body = Null
  /\ gpc = "idle"

Init ==
  /\ \E arg \in CtorArgs, up \in BOOLEAN : SubscriberInit(arg, up)
  /\ PipelineIdle
  /\ LinksIdle
  /\ LogIdle

\* ---------------------------------------------------------------- registry
\* variant of Appended: self.processors.insert(0, processor)
Prepended(list, p) == <<p>> \o list

\* variant of Appended: a processor whose name is already registered is
\* not added again
AppendedIfNew(list, p) ==
  IF \E i \in 1..Len(list) : Name(list[i]) = Name(p) THEN list
  ELSE Append(list, p)

\* add_processor: self.processors.append(processor)
Appended(list, p) == Append(list, p)

\* variant of FirstIndex: without a match the last entry is taken
FirstIndexOrLast(list, n) ==
  IF \E i \in 1..Len(list) : Name(list[i]) = n
  THEN CHOOSE i \in 1..Len(list) :
         /\ Name(list[i]) = n
         /\ \A j \in 1..(i - 1) : Name(list[j]) # n
  ELSE Len(list)

\* remove_processor: index of the first entry whose name is n, 0 if none
FirstIndex(list, n) ==
  IF \E i \in 1..Len(list) : Name(list[i]) = n
  THEN CHOOSE i \in 1..Len(list) :
         /\ Name(list[i]) = n
         /\ \A j \in 1..(i - 1) : Name(list[j]) # n
  ELSE 0

\* variant of Removed: every entry of that name is removed
RemovedAll(list, n) == SelectSeq(list, LAMBDA q : Name(q) # n)

\* remove_processor: the list after self.processors.pop(i) of the first match
Removed(list, n) ==
  IF FirstIndex(list, n) = 0 THEN list
  ELSE SubSeq(list, 1, FirstIndex(list, n) - 1)
         \o SubSeq(list, FirstIndex(list, n) + 1, Len(list))

\* remove_processor: the value returned
RemoveResult(list, n) == FirstIndex(list, n) # 0

\* the host registers a processor before it starts the consume loop
AddProcessor(p) ==
  /\ pc = "setup"
  /\ Len(processors) < MaxProcs
  /\ processors' = Appended(processors, p)
  /\ op' = [kind |-> "add", arg |-> p, ret |-> FALSE]
  /\ UNCHANGED <<pubsub, client, subscribed, serverUp, pc, caller, depth,
                 stopCause, cur, idx, nmsg, msg0, disp0, invoked, received,
                 pastRaise, lastOut, touched, fate,
                 confirmed>>
  /\ UNCHANGED <<mailVars, webVars, heapVars>>

\* the host changes the list it passed to the constructor, by append or by
\* pop: __init__ kept that list object, so the registry changes with it
HostChangesList ==
  /\ pc = "setup"
  /\ shared
  /\ \/ \E p \in Custom :
          /\ Len(processors) < MaxProcs
          /\ processors' = Append(processors, p)
          /\ op' = [kind |-> "host", arg |-> p, ret |-> FALSE]
     \/ /\ processors # << >>
        /\ processors' = SubSeq(processors, 1, Len(processors) - 1)
        /\ op' = [kind |-> "host", arg |-> processors[Len(processors)],
                  ret |-> FALSE]
  /\ UNCHANGED <<pubsub, client, subscribed, serverUp, pc, caller, depth,
                 stopCause, cur, idx, nmsg, msg0, disp0, invoked, received,
                 pastRaise, lastOut, touched, fate,
                 confirmed>>
  /\ UNCHANGED <<mailVars, webVars, heapVars>>

\* the host unregisters a processor by name
RemoveProcessor(n) ==
  /\ pc = "setup"
  /\ processors' = Removed(processors, n)
  /\ op' = [kind |-> "remove", arg |-> n, ret |-> RemoveResult(processors, n)]
  /\ UNCHANGED <<pubsub, client, subscribed, serverUp, pc, caller, depth,
                 stopCause, cur, idx, nmsg, msg0, disp0, invoked, received,
                 pastRaise, lastOut, touched, fate,
                 confirmed>>
  /\ UNCHANGED <<mailVars, webVars, heapVars>>

\* ---------------------------------------------------------------- dispatch
\* variant of SendEmail: a failure of the SMTP session is not caught
SendEmailUncaught(env) ==
  IF ~env.configured THEN [out |-> "false", sends |-> 0, skips |-> 1]
  ELSE IF env.smtp = "ok" THEN [out |-> "true", sends |-> 1, skips |-> 0]
  ELSE [out |-> "exc", sends |-> 1, skips |-> 0]

\* _send_email: False without credentials, before anything is sent; else
\* one SMTP session, True when it goes through and False when it raises
SendEmail(env) ==
  IF ~env.configured THEN [out |-> "false", sends |-> 0, skips |-> 1]
  ELSE IF env.smtp = "ok" THEN [out |-> "true", sends |-> 1, skips |-> 0]
  ELSE [out |-> "false", sends |-> 1, skips |-> 0]

\* variant of EmailProcess: a notification is sent for every message
EmailProcessAlways(hasLinks, env) == SendEmail(env)

\* EmailNotificationProcessor.process: True at once when links is empty,
\* else the result of _send_email
EmailProcess(hasLinks, env) ==
  IF ~hasLinks THEN [out |-> "true", sends |-> 0, skips |-> 0]
  ELSE SendEmail(env)

\* what process of processor p can end in for message m.  The notification
\* processor ends as EmailProcess says; the log processor returns True, or
\* raises TypeError at len(body) when message_body is null (the body is
\* not among the fields this message carries); a host processor is
\* arbitrary.  The interrupt signal can arrive while any of them runs.
ProcessOutcomes(p, m, env) ==
  CASE p = "Email" -> {EmailProcess(m.links # "", env).out, "kbint"}
    [] p = "Log"   -> {"true", "exc", "kbint"}
    [] OTHER       -> Outcomes

\* what process of processor p can do to the subscriber and to the message
\* it was given before it ends: nothing, add_processor, remove_processor, or
\* an assignment to a key of message_data
ProcessEffects(p) ==
  IF p \in Custom
  THEN {<<"none", "">>, <<"tamper", "">>}
         \cup {<<"add", q>> : q \in InFlightAdds}
         \cup {<<"remove", n>> : n \in InFlightRemoves}
  ELSE {<<"none", "">>}

\* variant of RegistryAfter: a call of process that touches nothing takes
\* the first processor off the registry
RegistryAfterDropping(list, eff) ==
  CASE eff[1] = "add"    -> Appended(list, eff[2])
    [] eff[1] = "remove" -> Removed(list, eff[2])
    [] OTHER             -> IF list = << >> THEN list ELSE Tail(list)

\* the registry after the effect
RegistryAfter(list, eff) ==
  CASE eff[1] = "add"    -> Appended(list, eff[2])
    [] eff[1] = "remove" -> Removed(list, eff[2])
    [] OTHER             -> list

\* the dict after the effect: message_data["links"] = "x"
MessageAfter(m, eff) ==
  IF eff[1] = "tamper" THEN [m EXCEPT !.links = "x"] ELSE m

\* the registry operation the effect performs
OpOf(list, eff) ==
  CASE eff[1] = "add"    -> [kind |-> "add", arg |-> eff[2], ret |-> FALSE]
    [] eff[1] = "remove" -> [kind |-> "remove", arg |-> eff[2],
                             ret |-> RemoveResult(list, eff[2])]
    [] OTHER             -> NoOp

\* variant of Propagates: the call of process is not guarded, every fault
\* leaves process_message
PropagatesEveryFault(out) == out \in {"exc", "kbint", "exit"}

\* process_message, "except Exception": the outcomes of process that the
\* handler does not catch and that leave process_message
Propagates(out) == out \in {"kbint", "exit"}

\* process_message, "for processor in self.processors": the list iterator
\* reads the list itself at each step and has a next element while its
\* position is inside the list as it is now
HasNext(list, i) == i < Len(list)

\* variant of NextOf: the list is walked from its end
NextOfReversed(list, i) == list[Len(list) - i]

\* the element the iterator yields at position i
NextOf(list, i) == list[i + 1]

\* start_listening: where a fault that left process_message goes.  The
\* inner "except Exception" (line 155) takes a fault derived from Exception
\* and the loop goes on; "except KeyboardInterrupt" (line 157) takes the
\* interrupt; no handler takes any other fault, which leaves start_listening
LoopHandler(out) ==
  CASE out = "exc"   -> "listen"
    [] out = "kbint" -> "unsub"
    [] OTHER         -> "done"

\* entry of process_message with message m
BeginDispatch(m, who) ==
  /\ pc' = "dispatch"
  /\ caller' = who
  /\ cur' = m
  /\ idx' = 0
  /\ nmsg' = nmsg + 1
  /\ msg0' = m
  /\ disp0' = processors
  /\ invoked' = << >>
  /\ received' = << >>
  /\ pastRaise' = FALSE
  /\ lastOut' = "none"
  /\ touched' = FALSE
  /\ op' = NoOp
  /\ sends' = 0
  /\ skips' = 0
  /\ UNCHANGED <<processors, fate, serverUp, webVars, heapVars>>

\* the frame of process_message is left: its locals and the bookkeeping of
\* the call are gone
Unwind ==
  /\ cur' = NoMsg
  /\ idx' = 0
  /\ msg0' = NoMsg
  /\ disp0' = << >>
  /\ invoked' = << >>
  /\ received' = << >>
  /\ pastRaise' = FALSE
  /\ touched' = FALSE
  /\ sends' = 0
  /\ skips' = 0

\* the host calls process_message directly
ProcessMessage ==
  /\ pc = "setup"
  /\ nmsg < MaxMsgs
  /\ \E l \in Links :
       BeginDispatch([message_id |-> nmsg + 1, links |-> l], "host")
  /\ UNCHANGED loopVars

\* one iteration of the for loop: the next processor is invoked, does what it
\* does, and its outcome is handled
Invoke ==
  /\ pc = "dispatch"
  /\ HasNext(processors, idx)
  /\ LET p == NextOf(processors, idx)
     IN \E env \in (IF p = "Email" THEN MailEnvs ELSE {NoEnv}),
           eff \in ProcessEffects(p) :
        \E out \in ProcessOutcomes(p, cur, env) :
          /\ (eff[1] = "add") => Len(processors) < MaxProcs
          /\ lastOut' = out
          /\ processors' = RegistryAfter(processors, eff)
          /\ op' = OpOf(processors, eff)
          /\ IF Propagates(out)
             THEN /\ Unwind
                  /\ IF caller = "host"
                     THEN /\ pc' = "raised"
                          /\ stopCause' = stopCause
                     ELSE /\ pc' = LoopHandler(out)
                          /\ stopCause' = IF LoopHandler(out) = "done"
                                          THEN "escaped" ELSE stopCause
             ELSE /\ idx' = idx + 1
                  /\ invoked' = Append(invoked, p)
                  /\ received' = Append(received, cur)
                  /\ cur' = MessageAfter(cur, eff)
                  /\ touched' = (touched \/ processors' # processors)
                  /\ pastRaise' = (pastRaise \/ out = "exc")
                  /\ sends' = IF p = "Email"
                              THEN sends + EmailProcess(cur.links # "", env).sends
                              ELSE sends
                  /\ skips' = IF p = "Email"
                              THEN skips + EmailProcess(cur.links # "", env).skips
                              ELSE skips
                  /\ pc' = "dispatch"
                  /\ stopCause' = stopCause
                  /\ UNCHANGED <<msg0, disp0>>
          /\ fate' = IF Propagates(out) /\ caller = "loop"
                        /\ LoopHandler(out) = "listen"
                     THEN Append(fate, "faulted") ELSE fate
  /\ UNCHANGED <<pubsub, client, subscribed, serverUp, caller, depth, nmsg,
                 confirmed, webVars, heapVars>>

\* the for loop is exhausted and process_message returns to its caller
DispatchReturn ==
  /\ pc = "dispatch"
  /\ ~HasNext(processors, idx)
  /\ pc' = IF caller = "host" THEN "setup" ELSE "listen"
  /\ fate' = Append(fate, caller)
  /\ Unwind
  /\ lastOut' = "none"
  /\ op' = NoOp
  /\ UNCHANGED <<processors, pubsub, client, subscribed, serverUp, caller,
                 depth, stopCause, nmsg, confirmed, webVars, heapVars>>

\* ------------------------------------------------------------ consume loop
\* _connect: the connection, the pubsub object and the subscription after
\* the attempt; every failure is caught and leaves both attributes None
ConnectOk(up) == up

\* kinds of data a 'message' event carries: a JSON object, JSON that is not
\* an object, and text that is not JSON
DataKinds == {"object", "nonobject", "garbage"}

\* json.loads(message['data']) returns a value
Decodes(kind) == kind # "garbage"

\* process_message line 129, message_data.get(...): only a dict has get;
\* for any other value the call raises before the for loop is entered
Dispatchable(kind) == Decodes(kind) /\ kind = "object"

\* variant of DropCaught: the inner try has no "except Exception"
DropCaughtJsonOnly(kind) == kind = "garbage"

\* variant of DropCaught: json.loads is called outside the inner try
DropCaughtProcessingOnly(kind) == kind = "nonobject"

\* lines 153 to 156: "except json.JSONDecodeError" catches the fault of
\* data that is not JSON, "except Exception" the fault of line 129 for a
\* value without get
DropCaught(kind) == kind \in {"garbage", "nonobject"}

\* variant of AwaitingMessage: events are taken from the channel while a
\* dispatch is still running
AwaitingMessageOrBusy == pc \in {"listen", "dispatch"}

\* line 148: the thread is inside next() of pubsub.listen(), waiting for an
\* event; it is there only between two iterations of the for loop
AwaitingMessage == pc = "listen"

\* the host calls start_listening
StartListening ==
  /\ pc = "setup"
  /\ depth' = 1
  /\ IF ~pubsub
     THEN /\ pc' = "done"
          /\ stopCause' = "noconn"
     ELSE /\ pc' = "listen"
          /\ stopCause' = stopCause
  /\ op' = NoOp
  /\ UNCHANGED <<processors, pubsub, client, subscribed, serverUp, caller,
                 cur, idx, nmsg, msg0, disp0, invoked, received, pastRaise,
                 lastOut, touched, fate, confirmed>>
  /\ UNCHANGED <<mailVars, webVars, heapVars>>

\* variant of IsMessage: the type of the event is not looked at
IsMessageAlways(type) == TRUE

\* line 149: message['type'] == 'message'
IsMessage(type) == type = "message"

\* listen() yields an event whose type is not 'message': the confirmation
\* of the subscription, the first event of every subscription.  The test of
\* line 149 fails and the loop asks for the next event.
ListenOther ==
  /\ AwaitingMessage
  /\ serverUp
  /\ ~confirmed
  /\ confirmed' = TRUE
  /\ IF IsMessage("subscribe")
     THEN /\ nmsg < MaxMsgs
          /\ \E l \in Links :
               BeginDispatch([message_id |-> nmsg + 1, links |-> l], "loop")
          /\ UNCHANGED <<pubsub, client, subscribed, depth, stopCause>>
     ELSE /\ op' = NoOp
          /\ UNCHANGED <<processors, pubsub, client, subscribed, serverUp, pc,
                         caller, depth, stopCause, cur, idx, nmsg, msg0,
                         disp0, invoked, received, pastRaise, lastOut,
                         touched, fate>>
          /\ UNCHANGED <<mailVars, webVars, heapVars>>

\* listen() yields a 'message' event with data of the given kind.  A dict
\* is handed to process_message; any other data raises inside the inner try
\* and the loop goes on with the next event when a handler of lines 153 to
\* 156 catches the fault; a fault they did not catch would reach the handler
\* of line 161.
ListenMessage(kind) ==
  /\ AwaitingMessage
  /\ serverUp
  /\ confirmed
  /\ nmsg < MaxMsgs
  /\ IsMessage("message")
  /\ IF Dispatchable(kind)
     THEN /\ \E l \in Links :
               BeginDispatch([message_id |-> nmsg + 1, links |-> l], "loop")
          /\ UNCHANGED <<pubsub, client, subscribed, depth, stopCause,
                         confirmed>>
     ELSE /\ fate' = Append(fate, kind)
          /\ nmsg' = nmsg + 1
          /\ pc' = IF DropCaught(kind) THEN "listen" ELSE "sleep"
          /\ op' = NoOp
          /\ UNCHANGED <<processors, pubsub, client, subscribed, serverUp,
                         caller, depth, stopCause, cur, idx, msg0, disp0,
                         invoked, received, pastRaise, lastOut, touched,
                         confirmed, mailVars, webVars, heapVars>>

\* listen() raises a connection-level error: the handler of line 161
ListenError ==
  /\ AwaitingMessage
  /\ ~serverUp
  /\ pc' = "sleep"
  /\ op' = NoOp
  /\ UNCHANGED <<processors, pubsub, client, subscribed, serverUp, caller,
                 depth, stopCause, cur, idx, nmsg, msg0, disp0, invoked,
                 received, pastRaise, lastOut, touched, fate, confirmed>>
  /\ UNCHANGED <<mailVars, webVars, heapVars>>

\* lines 163 to 165: after the sleep, _connect and the nested call of
\* start_listening, which returns at once when pubsub is None and which
\* cannot be made at all when the frames are used up
Reconnect ==
  /\ pc = "sleep"
  /\ pubsub' = ConnectOk(serverUp)
  /\ client' = IF ConnectOk(serverUp) THEN "open" ELSE "none"
  /\ subscribed' = ConnectOk(serverUp)
  /\ confirmed' = FALSE
  /\ IF depth + 1 > RecursionLimit
     THEN /\ depth' = depth
          /\ pc' = "done"
          /\ stopCause' = "recursion"
     ELSE /\ depth' = depth + 1
          /\ IF ~pubsub'
             THEN /\ pc' = "done"
                  /\ stopCause' = "noconn"
             ELSE /\ pc' = "listen"
                  /\ stopCause' = stopCause
  /\ op' = NoOp
  /\ UNCHANGED <<processors, serverUp, caller, cur, idx, nmsg, msg0, disp0,
                 invoked, received, pastRaise, lastOut, touched, fate>>
  /\ UNCHANGED <<mailVars, webVars, heapVars>>

\* the interrupt signal arrives while listen() blocks: the handler of
\* line 157 is entered
InterruptWait ==
  /\ AwaitingMessage
  /\ pc' = "unsub"
  /\ op' = NoOp
  /\ UNCHANGED <<processors, pubsub, client, subscribed, serverUp, caller,
                 depth, stopCause, cur, idx, nmsg, msg0, disp0, invoked,
                 received, pastRaise, lastOut, touched, fate, confirmed>>
  /\ UNCHANGED <<mailVars, webVars, heapVars>>

\* the interrupt signal arrives inside the handler of line 161 (during the
\* sleep or _connect): no handler is left to catch it
InterruptReconnect ==
  /\ pc = "sleep"
  /\ pc' = "done"
  /\ stopCause' = "interrupt_escaped"
  /\ op' = NoOp
  /\ UNCHANGED <<processors, pubsub, client, subscribed, serverUp, caller,
                 depth, cur, idx, nmsg, msg0, disp0, invoked, received, pastRaise,
                 lastOut, touched, fate, confirmed>>
  /\ UNCHANGED <<mailVars, webVars, heapVars>>

\* line 159: self.pubsub.unsubscribe(config.REDIS_CHANNEL)
Unsubscribe ==
  /\ pc = "unsub"
  /\ subscribed' = FALSE
  /\ pc' = "close"
  /\ op' = NoOp
  /\ UNCHANGED <<processors, pubsub, client, serverUp, caller, depth,
                 stopCause, cur, idx, nmsg, msg0, disp0, invoked, received,
                 pastRaise, lastOut, touched, fate,
                 confirmed>>
  /\ UNCHANGED <<mailVars, webVars, heapVars>>

\* variant of Close: the handler returns without closing the connection
CloseSkipped ==
  /\ pc = "close"
  /\ pc' = "done"
  /\ stopCause' = "interrupt"
  /\ op' = NoOp
  /\ UNCHANGED <<processors, pubsub, client, subscribed, serverUp,
                 caller, depth, cur, idx, nmsg, msg0, disp0, invoked,
                 received, pastRaise, lastOut, touched, fate, confirmed>>
  /\ UNCHANGED <<mailVars, webVars, heapVars>>

\* line 160: self.redis_client.close(), after which start_listening returns
Close ==
  /\ pc = "close"
  /\ client' = "closed"
  /\ pc' = "done"
  /\ stopCause' = "interrupt"
  /\ op' = NoOp
  /\ UNCHANGED <<processors, pubsub, subscribed, serverUp, caller, depth, cur,
                 idx, nmsg, msg0, disp0, invoked, received, pastRaise, lastOut,
                 touched, fate, confirmed>>
  /\ UNCHANGED <<mailVars, webVars, heapVars>>

\* ------------------------------------------------------------- environment
\* the channel server stops or comes back while the consume loop runs (what
\* it did before is the choice of Init and of the first of these steps)
ServerDown ==
  /\ pc \in {"listen", "sleep"}
  /\ serverUp
  /\ serverUp' = FALSE
  /\ op' = NoOp
  /\ UNCHANGED <<processors, pubsub, client, subscribed, pc, caller, depth,
                 stopCause, cur, idx, nmsg, msg0, disp0, invoked, received,
                 pastRaise, lastOut, touched, fate,
                 confirmed>>
  /\ UNCHANGED <<mailVars, webVars, heapVars>>

ServerUp ==
  /\ pc \in {"listen", "sleep"}
  /\ ~serverUp
  /\ serverUp' = TRUE
  /\ op' = NoOp
  /\ UNCHANGED <<processors, pubsub, client, subscribed, pc, caller, depth,
                 stopCause, cur, idx, nmsg, msg0, disp0, invoked, received,
                 pastRaise, lastOut, touched, fate,
                 confirmed>>
  /\ UNCHANGED <<mailVars, webVars, heapVars>>

Next ==
  \/ \E p \in Custom : AddProcessor(p)
  \/ \E n \in RemoveArgs : RemoveProcessor(n)
  \/ HostChangesList
  \/ ProcessMessage
  \/ Invoke
  \/ DispatchReturn
  \/ StartListening
  \/ ListenOther
  \/ \E kind \in DataKinds : ListenMessage(kind)
  \/ ListenError
  \/ Reconnect
  \/ InterruptWait
  \/ InterruptReconnect
  \/ Unsubscribe
  \/ Close
  \/ ServerDown
  \/ ServerUp

Spec == Init /\ [][Next]_vars

\* ------------------------------------------------------------- normalizer
\* dict.get(key): the value of the key, None when the dict has no such key
Get(o, f) == IF o[f] = Absent THEN Null ELSE o[f]

\* variant of GetObj: message.get(key), None when the key is missing
GetObjNoDefault(message, key) ==
  IF key \in ObjKeys /\ message[key].k # "absent" THEN message[key]
  ELSE NullObj

\* message.get(key, {}): the nested value, the empty dict when the raw
\* message has no such key
GetObj(message, key) ==
  IF key \in ObjKeys /\ message[key].k # "absent" THEN message[key]
  ELSE EmptyObj

\* truth value of None and of a string
Truthy(v) == v.k = "str" /\ v.v # << >>

\* f"{msg_type}": the text of a string, "None" for None
Format(v) == IF v.k = "null" THEN <<"None">> ELSE v.v

\* re.findall(r'https?://\S+', text): the end of the run of tokens without
\* whitespace that starts at position i
RECURSIVE RunEnd(_, _)
RunEnd(t, i) ==
  IF i < Len(t) /\ t[i + 1] # " " THEN RunEnd(t, i + 1) ELSE i

\* the matches from position i on, left to right without overlap: a match
\* starts at a scheme that is followed by at least one token that is not
\* whitespace, and takes the whole run
RECURSIVE FindAll(_, _)
FindAll(t, i) ==
  IF i > Len(t) THEN << >>
  ELSE IF t[i] = "http://" /\ i < Len(t) /\ t[i + 1] # " "
       THEN <<SubSeq(t, i, RunEnd(t, i))>> \o FindAll(t, RunEnd(t, i) + 1)
       ELSE FindAll(t, i + 1)

\* variant of Join: the matches are joined with "," alone
RECURSIVE JoinComma(_)
JoinComma(ms) ==
  IF ms = << >> THEN << >>
  ELSE IF Len(ms) = 1 THEN ms[1]
  ELSE ms[1] \o <<",">> \o JoinComma(Tail(ms))

\* ", ".join(matches)
RECURSIVE Join(_)
Join(ms) ==
  IF ms = << >> THEN << >>
  ELSE IF Len(ms) = 1 THEN ms[1]
  ELSE ms[1] \o <<",", " ">> \o Join(Tail(ms))

\* variant of ExtractLinks: without the test of the text, re.findall is
\* given None and raises TypeError
ExtractLinksUnguarded(v) ==
  IF v.k = "str" THEN Str(Join(FindAll(v.v, 1)))
  ELSE [k |-> "raised", v |-> << >>]

\* extract_links: the joined matches, "" for None and for ""
ExtractLinks(v) ==
  IF Truthy(v) THEN Str(Join(FindAll(v.v, 1))) ELSE Str(<< >>)

\* variant of MediaTypes: location messages count as media
MediaTypesAndLocation ==
  {"image", "video", "audio", "document", "sticker", "location"}

\* the list of line 49
MediaTypes == {"image", "video", "audio", "document", "sticker"}

IsText(t) == t = Str(<<"text">>)
IsMedia(t) == t.k = "str" /\ Len(t.v) = 1 /\ t.v[1] \in MediaTypes

\* variant of TextBody: whitespace at the start of the body is stripped
TextBodyStripped(text) ==
  IF Get(text, "body").k = "str" /\ Get(text, "body").v # << >>
     /\ Head(Get(text, "body").v) = " "
  THEN Str(Tail(Get(text, "body").v))
  ELSE Get(text, "body")

\* line 47: body of a text message, .get("body") of the "text" object
TextBody(text) == Get(text, "body")

\* variant of MediaBody: a caption that is present is taken even when empty
MediaBodyAnyCaption(media, type) ==
  IF Get(media, "caption").k = "str" THEN Get(media, "caption")
  ELSE Str(Format(type) \o <<" ", "received">>)

\* line 54: media.get("caption") or f"{msg_type} received"
MediaBody(media, type) ==
  IF Truthy(Get(media, "caption")) THEN Get(media, "caption")
  ELSE Str(Format(type) \o <<" ", "received">>)

\* line 57: f"Unsupported message type: {msg_type}"
UnsupportedBody(type) ==
  Str(<<"Unsupported", " ", "message", " ", "type:", " ">> \o Format(type))

\* variant of ParseWhatsappMessage: a text message takes id, mime_type and
\* filename from the "image" object it carries
ParseTextWithMedia(message) ==
  LET msg_type == Get(message, "type")
  IN IF IsText(msg_type)
     THEN LET text == GetObj(message, "text")
          IN IF text.k = "null" THEN Raised
             ELSE Canon("ok", msg_type, TextBody(text),
                        Get(message.image, "id"),
                        Get(message.image, "mime_type"),
                        Get(message.image, "filename"),
                        ExtractLinks(TextBody(text)))
     ELSE IF IsMedia(msg_type)
     THEN LET media == GetObj(message, msg_type.v[1])
          IN IF media.k = "null" THEN Raised
             ELSE Canon("ok", msg_type, MediaBody(media, msg_type),
                        Get(media, "id"), Get(media, "mime_type"),
                        Get(media, "filename"),
                        ExtractLinks(MediaBody(media, msg_type)))
     ELSE Canon("ok", msg_type, UnsupportedBody(msg_type), Null, Null, Null,
                ExtractLinks(UnsupportedBody(msg_type)))

\* parse_whatsapp_message.  A nested key that holds null instead of an
\* object makes .get raise AttributeError.
ParseWhatsappMessage(message) ==
  LET msg_type == Get(message, "type")
  IN IF IsText(msg_type)
     THEN LET text == GetObj(message, "text")
          IN IF text.k = "null" THEN Raised
             ELSE Canon("ok", msg_type, TextBody(text), Null, Null, Null,
                        ExtractLinks(TextBody(text)))
     ELSE IF IsMedia(msg_type)
     THEN LET media == GetObj(message, msg_type.v[1])
          IN IF media.k = "null" THEN Raised
             ELSE Canon("ok", msg_type, MediaBody(media, msg_type),
                        Get(media, "id"), Get(media, "mime_type"),
                        Get(media, "filename"),
                        ExtractLinks(MediaBody(media, msg_type)))
     ELSE Canon("ok", msg_type, UnsupportedBody(msg_type), Null, Null, Null,
                ExtractLinks(UnsupportedBody(msg_type)))

\* LoggingProcessor.process: message_data.get('message_body', 'N/A') is the
\* value of the key, which every canonical message has; len(body) raises
\* TypeError when that value is None; else the method returns True
LoggingProcess(m) ==
  IF m.message_body.k = "str" THEN "true" ELSE "exc"

\* --------------------------------------------------------------- pipeline
subscriberVars ==
  <<processors, pubsub, client, subscribed, serverUp, pc, caller, depth,
    stopCause, cur, idx, nmsg, msg0, disp0, invoked, received, pastRaise,
    lastOut, touched, fate, confirmed, op, sends, skips, shared>>

\* variant of DbRecord: the row is stored without its links
DbRecordNoLinks(env, parsed) ==
  [wa_id |-> env.wa_id, sender_name |-> Get(env, "name"),
   message_id |-> Get(env, "id"), message_type |-> parsed.message_type,
   message_body |-> parsed.message_body, media_id |-> parsed.media_id,
   mime_type |-> parsed.mime_type, filename |-> parsed.filename,
   links |-> Str(<< >>), headers |-> Str(<<"hdrs">>)]

\* the row the handler adds (lines 62 to 73); headers is the JSON text of
\* the request headers
DbRecord(env, parsed) ==
  [wa_id |-> env.wa_id, sender_name |-> Get(env, "name"),
   message_id |-> Get(env, "id"), message_type |-> parsed.message_type,
   message_body |-> parsed.message_body, media_id |-> parsed.media_id,
   mime_type |-> parsed.mime_type, filename |-> parsed.filename,
   links |-> parsed.links, headers |-> Str(<<"hdrs">>)]

\* variant of MessageData: the headers are published as well
MessageDataWithHeaders(env, parsed) ==
  << <<"wa_id", env.wa_id>>, <<"sender_name", Get(env, "name")>>,
     <<"message_id", Get(env, "id")>>,
     <<"message_type", parsed.message_type>>,
     <<"message_body", parsed.message_body>>,
     <<"media_id", parsed.media_id>>, <<"mime_type", parsed.mime_type>>,
     <<"filename", parsed.filename>>, <<"links", parsed.links>>,
     <<"headers", Str(<<"hdrs">>)>> >>

\* the dict the handler publishes (lines 79 to 89): its keys in the order
\* of the literal, each with its value
MessageData(env, parsed) ==
  << <<"wa_id", env.wa_id>>, <<"sender_name", Get(env, "name")>>,
     <<"message_id", Get(env, "id")>>,
     <<"message_type", parsed.message_type>>,
     <<"message_body", parsed.message_body>>,
     <<"media_id", parsed.media_id>>, <<"mime_type", parsed.mime_type>>,
     <<"filename", parsed.filename>>, <<"links", parsed.links>> >>

\* json.dumps of a value: null for None, the text between quotes for a
\* string; and of a dict: its members in order
JsonValue(v) ==
  IF v.k = "null" THEN <<"null">> ELSE <<"\"">> \o v.v \o <<"\"">>
JsonDumps(d) == [i \in 1..Len(d) |-> <<d[i][1], JsonValue(d[i][2])>>]

\* json.loads of a value and of an object
JsonLoadsValue(e) ==
  IF e = <<"null">> THEN Null ELSE Str(SubSeq(e, 2, Len(e) - 1))
JsonLoads(j) ==
  [f \in {j[i][1] : i \in 1..Len(j)} |->
     JsonLoadsValue(j[CHOOSE i \in 1..Len(j) : j[i][1] = f][2])]

\* variant of PublishMessage: without a client the publisher connects again
\* and publishes when the server is available
PublishMessageReconnects(connected, chanOk) ==
  IF chanOk THEN [ret |-> "true", handed |-> 1]
  ELSE [ret |-> "false", handed |-> 0]

\* variant of PublishMessage: a failure of the publish call is not caught
PublishMessageUncaught(connected, chanOk) ==
  IF ~connected THEN [ret |-> "false", handed |-> 0]
  ELSE IF chanOk THEN [ret |-> "true", handed |-> 1]
  ELSE [ret |-> "exc", handed |-> 0]

\* RedisPublisher.publish_message: False without a client; else the message
\* is handed to the channel once and True is returned, or the call raises,
\* which is caught, and False is returned
PublishMessage(connected, chanOk) ==
  IF ~connected THEN [ret |-> "false", handed |-> 0]
  ELSE IF chanOk THEN [ret |-> "true", handed |-> 1]
  ELSE [ret |-> "false", handed |-> 0]

\* the message_data a processor is given: the decoded channel message
Delivered == JsonLoads(channel[Len(channel)])

\* a webhook request arrived: a payload with a raw message, or a payload
\* that lacks one of the keys the handler reads.  The publisher connected at
\* import, or failed to.  The subscriber stands by.
PipelineInit ==
  /\ SubscriberInit([given |-> FALSE, list |-> << >>], TRUE)
  /\ \/ envelope = GoodEnvelope /\ raw \in RawMessages
     \/ envelope = Malformed /\ raw = NoRaw
  /\ pubClient \in BOOLEAN
  /\ broker \in BOOLEAN
  /\ events = 1
  /\ wpc = "received"
  /\ canon = NoCanon
  /\ logOut = "none"
  /\ mailOut = "none"
  /\ mailEnv = NoEnv
  /\ mailSends = 0
  /\ stored = << >>
  /\ channel = << >>
  /\ pubRet = "none"
  /\ response = "none"
  /\ LinksIdle
  /\ LogIdle

\* main.py lines 51 to 60: the handler reads the payload, which raises
\* KeyError when a key is missing, and calls parse_whatsapp_message; a fault
\* of either goes to the handler of line 93, which answers with the error
Normalize ==
  /\ wpc = "received"
  /\ canon' = IF envelope.ok THEN ParseWhatsappMessage(raw) ELSE canon
  /\ wpc' = IF envelope.ok /\ canon'.status = "ok" THEN "parsed" ELSE "failed"
  /\ response' = IF wpc' = "failed" THEN "error" ELSE response
  /\ UNCHANGED <<raw, logOut, mailOut, mailEnv, mailSends>>
  /\ UNCHANGED <<envelope, stored, channel, pubClient, pubRet, broker, events>>
  /\ UNCHANGED <<subscriberVars, linkVars, logVars>>

\* variant of Rejected: the table takes any number of rows of one message_id
RejectedNever(rows, row) == FALSE

\* models.py line 11, message_id unique: the commit of a row is rejected
\* when a stored row has its message_id; rows without a message_id (NULL)
\* do not collide
Rejected(rows, row) ==
  /\ row.message_id # Null
  /\ \E i \in 1..Len(rows) : rows[i].message_id = row.message_id

\* lines 62 to 76: db.add and db.commit, which go through or raise (a
\* database error, or a message_id that is already stored is rejected by the
\* unique constraint); a fault goes to the handler of line 93
Persist ==
  /\ wpc = "parsed"
  /\ \E dbOk \in BOOLEAN :
       IF dbOk /\ ~Rejected(stored, DbRecord(envelope, canon))
       THEN /\ stored' = Append(stored, DbRecord(envelope, canon))
            /\ wpc' = "stored"
            /\ response' = response
       ELSE /\ stored' = stored
            /\ wpc' = "failed"
            /\ response' = "error"
  /\ UNCHANGED <<raw, canon, logOut, mailOut, mailEnv, mailSends>>
  /\ UNCHANGED <<envelope, channel, pubClient, pubRet, broker, events>>
  /\ UNCHANGED <<subscriberVars, linkVars, logVars>>

\* lines 79 to 92: the handler builds message_data, calls publish_message,
\* ignores what it returns and answers "logged"; the publish call goes
\* through when the channel server is available
Publish ==
  /\ wpc = "stored"
  /\ LET r == PublishMessage(pubClient, broker)
       IN /\ pubRet' = r.ret
          /\ channel' = IF r.handed = 1
                        THEN Append(channel,
                                    JsonDumps(MessageData(envelope, canon)))
                        ELSE channel
          /\ wpc' = IF r.ret = "exc" THEN "failed"
                    ELSE IF r.handed = 1 THEN "published" ELSE "unpublished"
          /\ response' = IF r.ret = "exc" THEN "error" ELSE "logged"
  /\ UNCHANGED <<raw, canon, logOut, mailOut, mailEnv, mailSends>>
  /\ UNCHANGED <<envelope, stored, pubClient, broker, events>>
  /\ UNCHANGED <<subscriberVars, linkVars, logVars>>

\* the log processor is given the message the channel delivers
RunLogging ==
  /\ wpc = "published"
  /\ logOut = "none"
  /\ logOut' = LoggingProcess(Delivered)
  /\ UNCHANGED <<raw, wpc, canon, mailOut, mailEnv, mailSends>>
  /\ UNCHANGED <<subscriberVars, hookVars, linkVars, logVars>>

\* the notification processor is given the message the channel delivers
RunEmail ==
  /\ wpc = "published"
  /\ mailOut = "none"
  /\ \E env \in MailEnvs :
       /\ mailEnv' = env
       /\ mailOut' = EmailProcess(Truthy(Delivered.links), env).out
       /\ mailSends' = EmailProcess(Truthy(Delivered.links), env).sends
  /\ UNCHANGED <<raw, wpc, canon, logOut>>
  /\ UNCHANGED <<subscriberVars, hookVars, linkVars, logVars>>

PipelineNext ==
  \/ Normalize
  \/ Persist
  \/ Publish
  \/ RunLogging
  \/ RunEmail

PipelineSpec == PipelineInit /\ [][PipelineNext]_vars

\* ------------------------------------------------------------ extract_links
\* tokens of the texts extract_links is applied to
LinkAlphabet == {"http://", "a", " ", ","}

\* the arguments: None and every text of at most MaxText tokens
LinkInputs ==
  {Null} \cup {Str(t) : t \in UNION {[1..n -> LinkAlphabet] : n \in 0..MaxText}}

LinkInit ==
  /\ SubscriberInit([given |-> FALSE, list |-> << >>], TRUE)
  /\ PipelineIdle
  /\ LogIdle
  /\ txt \in LinkInputs
  /\ once = Null
  /\ twice = Null
  /\ lpc = "start"

\* links = extract_links(txt)
ExtractOnce ==
  /\ lpc = "start"
  /\ once' = ExtractLinks(txt)
  /\ lpc' = "once"
  /\ UNCHANGED <<txt, twice, subscriberVars, pipeVars, hookVars,
               logVars>>

\* extract_links(links)
ExtractTwice ==
  /\ lpc = "once"
  /\ twice' = ExtractLinks(once)
  /\ lpc' = "twice"
  /\ UNCHANGED <<txt, once, subscriberVars, pipeVars, hookVars,
               logVars>>

LinkNext ==
  \/ ExtractOnce
  \/ ExtractTwice

LinkSpec == LinkInit /\ [][LinkNext]_vars

\* ------------------------------------------------- a series of requests
\* RedisPublisher.__init__ and _connect: the client is kept when the ping
\* went through, and is None after any failure
PublisherConnect(up) == up

\* ids of the messages of the requests; Absent: the message has no "id"
EventIds == {Absent, Str(<<"id1">>), Str(<<"id2">>)}

\* raw messages of the requests: a text with a link, an image with a
\* caption, and a text message whose "text" key holds null
HookRaws ==
  {Raw(Str(<<"text">>),
       Obj(Absent, Absent, Absent, Absent, Str(<<"see", " ", "http://", "a">>)),
       AbsentObj, AbsentObj),
   Raw(Str(<<"image">>), AbsentObj,
       Obj(Str(<<"m1">>), Str(<<"mt">>), Absent, Str(<<"look">>), Absent),
       AbsentObj),
   Raw(Str(<<"text">>), NullObj, AbsentObj, AbsentObj)}

\* a request arrives: a payload with a message, or a malformed payload
Arrives ==
  \/ /\ envelope' \in {Envelope(TRUE, Str(<<"w1">>), Str(<<"n">>), id) :
                         id \in EventIds}
     /\ raw' \in HookRaws
  \/ /\ envelope' = Malformed
     /\ raw' = NoRaw

\* the module is imported, which constructs the publisher, and the first
\* request arrives
HookInit ==
  /\ SubscriberInit([given |-> FALSE, list |-> << >>], TRUE)
  /\ LinksIdle
  /\ LogIdle
  /\ broker \in BOOLEAN
  /\ pubClient = PublisherConnect(broker)
  /\ \/ envelope \in {Envelope(TRUE, Str(<<"w1">>), Str(<<"n">>), id) :
                        id \in EventIds}
        /\ raw \in HookRaws
     \/ envelope = Malformed /\ raw = NoRaw
  /\ events = 1
  /\ wpc = "received"
  /\ canon = NoCanon
  /\ logOut = "none"
  /\ mailOut = "none"
  /\ mailEnv = NoEnv
  /\ mailSends = 0
  /\ stored = << >>
  /\ channel = << >>
  /\ pubRet = "none"
  /\ response = "none"

\* the handler has answered the request
Answered == wpc \in {"failed", "published", "unpublished"}

\* the next request arrives after the handler answered the one before
NextEvent ==
  /\ Answered
  /\ events < MaxEvents
  /\ events' = events + 1
  /\ Arrives
  /\ wpc' = "received"
  /\ canon' = NoCanon
  /\ pubRet' = "none"
  /\ response' = "none"
  /\ UNCHANGED <<stored, channel, pubClient, broker>>
  /\ UNCHANGED <<logOut, mailOut, mailEnv, mailSends>>
  /\ UNCHANGED <<subscriberVars, linkVars, logVars>>

\* the channel server becomes available
BrokerUp ==
  /\ ~broker
  /\ broker' = TRUE
  /\ UNCHANGED <<envelope, stored, channel, pubClient, pubRet, response,
                 events>>
  /\ UNCHANGED <<subscriberVars, pipeVars, linkVars, logVars>>

\* the channel server goes away
BrokerDown ==
  /\ broker
  /\ broker' = FALSE
  /\ UNCHANGED <<envelope, stored, channel, pubClient, pubRet, response,
                 events>>
  /\ UNCHANGED <<subscriberVars, pipeVars, linkVars, logVars>>

HookNext ==
  \/ Normalize
  \/ Persist
  \/ Publish
  \/ NextEvent
  \/ BrokerUp
  \/ BrokerDown

HookSpec == HookInit /\ [][HookNext]_vars

\* ------------------------------------------------------- log rendering
\* LoggingProcessor.MAX_BODY_LENGTH
MAX_BODY_LENGTH == 50

\* the truncation marker '...'
Marker == <<".", ".", ".">>

\* body[:n]
Slice(s, n) == SubSeq(s, 1, IF n < Len(s) THEN n ELSE Len(s))

\* variant of TruncatedBody: the test is len(body) >= MAX_BODY_LENGTH
TruncatedBodyFromLimit(s) ==
  IF Len(s) >= MAX_BODY_LENGTH THEN Slice(s, MAX_BODY_LENGTH) \o Marker
  ELSE s

\* body[:MAX_BODY_LENGTH] + '...' if len(body) > MAX_BODY_LENGTH else body
TruncatedBody(s) ==
  IF Len(s) > MAX_BODY_LENGTH THEN Slice(s, MAX_BODY_LENGTH) \o Marker
  ELSE s

\* lines 31 and 32 for the value of the key 'message_body': the default
\* 'N/A' stands in for a missing key only, and len(None) raises TypeError
RenderBody(value) ==
  CASE value.k = "absent" -> Str(TruncatedBody(<<"N", "/", "A">>))
    [] value.k = "null"   -> [k |-> "raised", v |-> << >>]
    [] OTHER              -> Str(TruncatedBody(value.v))

\* the characters bodies are written with, each a pattern repeated
Patterns == {<<"a">>, <<".">>, <<"a", ".", "b">>}

\* the first n characters of the repetition of pattern
Repeat(pattern, n) == [i \in 1..n |-> pattern[((i - 1) % Len(pattern)) + 1]]

\* the values of 'message_body': no key, None, and strings of every length
\* up to MaxBody
LogInputs ==
  {Absent, Null}
    \cup {Str(Repeat(pattern, n)) : pattern \in Patterns, n \in 0..MaxBody}

LogInit ==
  /\ SubscriberInit([given |-> FALSE, list |-> << >>], TRUE)
  /\ PipelineIdle
  /\ LinksIdle
  /\ logBody \in LogInputs
  /\ truncated_body = Null
  /\ gpc = "start"

\* LoggingProcessor.process renders the body
Render ==
  /\ gpc = "start"
  /\ truncated_body' = RenderBody(logBody)
  /\ gpc' = "done"
  /\ UNCHANGED <<logBody, subscriberVars, pipeVars, hookVars, linkVars>>

LogNext == Render

LogSpec == LogInit /\ [][LogNext]_vars

\* ------------------------------------------------------------------ claims
\* the for loop of process_message has no next element: the call is about
\* to return normally
Exhausted == pc = "dispatch" /\ ~HasNext(processors, idx)

\* a call of process ended and process_message was left without returning
DispatchRaised == lastOut # "none" /\ pc # "dispatch"

C2_NeverPropagates == DispatchRaised => lastOut = "kbint"

\* C2 amended: process_message is left by a fault only when the fault is
\* not derived from Exception (KeyboardInterrupt, SystemExit); after a
\* return value or an Exception the call goes on and returns normally
C2_ExceptionsNeverPropagate ==
  DispatchRaised => lastOut \notin {"true", "false", "exc"}

\* the last processor of a dispatch called by the host raised an Exception
\* and the call is about to return
C2_Witness ==
  /\ Exhausted
  /\ caller = "host"
  /\ lastOut = "exc"
  /\ ~touched
  /\ Len(invoked) >= 2

\* C3 as stated: the processors a dispatch invokes are the registry as it
\* was when the dispatch began, whatever the processors do to the registry
C3_SnapshotDispatch == Exhausted => invoked = disp0

\* C4 as stated: every processor of a dispatch receives the message value
\* that was passed to process_message
C4_SameMessage == \A i \in 1..Len(received) : received[i] = msg0

\* C5: one message at a time, in delivery order.  At most the latest
\* message pulled is not yet completely handled; a running dispatch works on
\* that message, and every time the loop waits for an event or reconnects,
\* all messages pulled so far were dropped or dispatched to completion.
C5_OneAtATime ==
  /\ Len(fate) \in {nmsg - 1, nmsg} \cap 0..nmsg
  /\ pc = "dispatch" => (cur.message_id = nmsg /\ Len(fate) = nmsg - 1)
  /\ pc \in {"setup", "listen", "sleep"} => Len(fate) = nmsg

\* the consume loop dispatches the second message after it dispatched the
\* first one to completion
C5_Witness ==
  /\ pc = "dispatch"
  /\ caller = "loop"
  /\ cur.message_id = 2
  /\ fate = <<"loop">>
  /\ Len(disp0) >= 2
  /\ invoked # << >>

\* C6 as stated: the consume loop ends only on an external interrupt or on a
\* failed initialization of the transport
C6_StopsOnlyOnInterruptOrInit ==
  pc = "done" => stopCause \in {"interrupt", "interrupt_escaped", "noconn"}

\* C6 amended: a fault derived from Exception that comes from a processor or
\* from decoding never ends the loop: after a dropped message the loop waits
\* for the next event, after a failing processor the dispatch goes on and
\* then returns to the wait.  The loop ends only on an interrupt, on a
\* connection attempt that failed, on a fault outside Exception raised in a
\* processor (which leaves start_listening), or when the nested calls of
\* start_listening use up the frames.
C6_ExceptionFaultsStayInside ==
  [][ /\ (nmsg' # nmsg /\ fate' # fate)
           => (pc' = "listen" /\ stopCause' = stopCause)
      /\ (pc = "dispatch" /\ caller = "loop" /\ lastOut' \in {"false", "exc"})
           => pc' = "dispatch"
      /\ (pc = "dispatch" /\ caller = "loop" /\ lastOut' = "none")
           => pc' = "listen"
      /\ (pc # "done" /\ pc' = "done")
           => /\ stopCause' \in {"interrupt", "interrupt_escaped", "noconn",
                                 "escaped", "recursion"}
              /\ stopCause' = "escaped" => lastOut' = "exit"
              /\ stopCause' = "noconn" => ~pubsub'
              /\ stopCause' = "recursion" => depth' = RecursionLimit
              /\ stopCause' = "interrupt" => pc = "close"
              /\ stopCause' = "interrupt_escaped" => pc = "sleep" ]_vars

\* the loop dropped a message and is now in a dispatch that went past a
\* processor that raised
C6_Witness ==
  /\ pc = "dispatch"
  /\ caller = "loop"
  /\ pastRaise
  /\ fate = <<"nonobject">>
  /\ cur.message_id = 2

\* C7 as stated: however many reconnect attempts fail, the loop keeps
\* retrying; it is ended by a failed connection attempt only when that is
\* the one made at construction
C7_RetriesWithoutBound ==
  (pc = "done" /\ stopCause \in {"noconn", "recursion"}) => depth = 1

\* C8: a message whose data is not JSON is dropped.  It is handled
\* completely by the step that pulls it: no processor is invoked, no
\* dispatch runs for it then or later, the connection, the subscription and
\* the nesting of start_listening stay as they are, and the loop waits for
\* the next event.
C8_UndecodableDropped ==
  [][ /\ (fate' # fate /\ fate'[Len(fate')] = "garbage")
           => /\ pc' = "listen"
              /\ nmsg' = nmsg + 1
              /\ Len(fate') = nmsg'
              /\ invoked' = << >>
              /\ UNCHANGED <<processors, pubsub, client, subscribed, depth,
                             stopCause, confirmed>>
      /\ (pc' = "dispatch" /\ cur'.message_id <= Len(fate'))
           => fate'[cur'.message_id] # "garbage" ]_vars

\* the message after an undecodable one is dispatched on the same connection
C8_Witness ==
  /\ fate = <<"garbage">>
  /\ pc = "dispatch"
  /\ caller = "loop"
  /\ cur.message_id = 2
  /\ depth = 1
  /\ invoked # << >>

\* C9: an interrupt during the wait ends the loop.  From the handler on no
\* message is pulled or dispatched, and when start_listening returns from the
\* handler the channel is unsubscribed and the connection closed.
C9_InterruptCleansUp ==
  [][ /\ (pc = "listen" /\ pc' \notin {"listen", "dispatch", "sleep"})
           => (pc' = "unsub" /\ UNCHANGED <<nmsg, fate, stopCause>>)
      /\ pc \in {"unsub", "close", "done"}
           => /\ pc' \in {"close", "done"}
              /\ UNCHANGED <<nmsg, fate, invoked>>
      /\ (pc # "done" /\ pc' = "done" /\ stopCause' = "interrupt")
           => (~subscribed' /\ client' = "closed") ]_vars

\* the loop was interrupted during the wait, after it had dispatched a
\* message, and start_listening returned after the cleanup
C9_Witness ==
  /\ pc = "done"
  /\ caller = "loop"
  /\ stopCause = "interrupt"
  /\ lastOut = "none"
  /\ fate = <<"loop">>
  /\ ~subscribed
  /\ client = "closed"

\* C10: add_processor appends.  The list grows by one, the new processor is
\* its last entry, the earlier entries keep their positions, and this holds
\* as well when the processor or its name is already registered.
C10_AddAppends ==
  [][ op'.kind = "add"
        => /\ Len(processors') = Len(processors) + 1
           /\ processors'[Len(processors')] = op'.arg
           /\ \A i \in 1..Len(processors) : processors'[i] = processors[i]
    ]_vars

\* a processor that was already registered has just been added again
C10_Witness ==
  /\ op.kind = "add"
  /\ pc = "setup"
  /\ Len(processors) >= 2
  /\ processors[Len(processors)] = op.arg
  /\ \E i \in 1..(Len(processors) - 1) : processors[i] = op.arg

\* C11: remove_processor with a matching name returns True and removes the
\* first entry of that name and nothing else: the entries before it keep
\* their positions, the entries after it, those of the same name included,
\* move up by one.
C11_RemovesFirstMatch ==
  [][ (/\ op'.kind = "remove"
       /\ \E i \in 1..Len(processors) : Name(processors[i]) = op'.arg)
        => /\ op'.ret = TRUE
           /\ Len(processors') = Len(processors) - 1
           /\ \E k \in 1..Len(processors) :
                /\ Name(processors[k]) = op'.arg
                /\ \A j \in 1..(k - 1) : Name(processors[j]) # op'.arg
                /\ \A i \in 1..Len(processors') :
                     processors'[i] = IF i < k THEN processors[i]
                                      ELSE processors[i + 1]
    ]_vars

\* the host removed by name the first of three processors of one name, and
\* the two later ones are left in their order
C11_Witness ==
  /\ op.kind = "remove"
  /\ op.arg = "A"
  /\ op.ret
  /\ pc = "setup"
  /\ processors = <<"A2", "A1">>

\* C12: remove_processor with a name no entry has (the empty registry
\* included) returns False, leaves the list as it is and returns to the host.
C12_RemoveAbsentIsNoOp ==
  [][ (/\ op'.kind = "remove"
       /\ \A i \in 1..Len(processors) : Name(processors[i]) # op'.arg)
        => /\ op'.ret = FALSE
           /\ processors' = processors
           /\ pc = "setup" => pc' = "setup"
    ]_vars

\* the host asked the default registry to remove a name it does not hold
C12_Witness ==
  /\ op.kind = "remove"
  /\ op.arg = "N"
  /\ ~op.ret
  /\ pc = "setup"
  /\ processors = <<"Email", "Log">>

\* number of entries of a list that are default processors
DefaultCount(list) ==
  Cardinality({i \in 1..Len(list) : list[i] \in {"Email", "Log"}})

\* C13: the registry is fixed at construction.  Without a list it is the
\* notification processor followed by the log processor; with a list, the
\* empty one included, it is that list; afterwards no step adds a default
\* processor.
C13_RegistryFixedAtConstruction ==
  [][ /\ op.kind = "init"
           => processors = IF op.ret THEN op.arg ELSE <<"Email", "Log">>
      /\ DefaultCount(processors') <= DefaultCount(processors)
    ]_vars

\* a subscriber constructed with the empty list holds no processor
C13_Witness ==
  /\ op.kind = "init"
  /\ op.ret
  /\ op.arg = << >>
  /\ processors = << >>
  /\ pc = "setup"

\* C14: the notification processor returns True when the links are empty,
\* False when there are links and the credentials are missing or the SMTP
\* session fails, True when there are links and the session goes through;
\* it never raises for a failure of the transport.
C14_EmailResult ==
  mailOut # "none"
    => /\ mailOut \in {"true", "false"}
       /\ canon.links.v = << >> => (mailOut = "true" /\ mailSends = 0)
       /\ (canon.links.v # << >>
            /\ (~mailEnv.configured \/ mailEnv.smtp = "fail"))
             => mailOut = "false"
       /\ (canon.links.v # << >> /\ mailEnv.configured
            /\ mailEnv.smtp = "ok")
             => mailOut = "true"

\* a message with a link met a configured transport whose session failed
C14_Witness ==
  /\ mailOut = "false"
  /\ mailEnv.configured
  /\ mailEnv.smtp = "fail"
  /\ mailSends = 1
  /\ canon.links.v # << >>

C16_LogNeverFails == logOut \in {"none", "true"}

\* a raw media message of the given type, whose object is there or is
\* missing altogether, was normalized
RawMedia(type) ==
  /\ wpc = "parsed"
  /\ raw.type = Str(<<type>>)
  /\ type \in ObjKeys
  /\ raw[type].k \in {"obj", "absent"}

\* C17 as stated: the canonical filename is the nested filename for a
\* document and null for every other media type
C17_FilenameOnlyForDocuments ==
  /\ RawMedia("document")
       => canon.filename = (IF raw.document.filename = Absent THEN Null
                            ELSE raw.document.filename)
  /\ RawMedia("image") => canon.filename = Null

\* C18: the body of a media message is its caption when the nested object
\* has one that is not empty, and "<type> received" otherwise.
C18_MediaBody ==
  \A type \in {"image", "document"} :
    RawMedia(type)
      => canon.message_body =
           (IF raw[type].caption.k = "str" /\ raw[type].caption.v # << >>
            THEN raw[type].caption
            ELSE Str(<<type, " ", "received">>))

\* an image whose caption is the empty string was normalized
C18_Witness ==
  /\ RawMedia("image")
  /\ raw.image.caption = Str(<< >>)
  /\ canon.message_body = Str(<<"image", " ", "received">>)

\* C19: a raw message whose type is missing or is none of the six known
\* types is normalized without failure: the body names the type, and
\* media_id, mime_type and filename are null whatever objects it carries.
C19_UnsupportedType ==
  (/\ wpc # "received"
   /\ envelope.ok
   /\ raw.type \notin {Str(<<t>>) : t \in {"text", "image", "video", "audio",
                                             "document", "sticker"}})
    => /\ canon.status = "ok"
       /\ canon.message_body =
            Str(<<"Unsupported", " ", "message", " ", "type:", " ",
                  IF raw.type = Absent THEN "None" ELSE raw.type.v[1]>>)
       /\ canon.media_id = Null
       /\ canon.mime_type = Null
       /\ canon.filename = Null

\* a location message that carries an image object with an id and a
\* filename was normalized
C19_Witness ==
  /\ wpc = "parsed"
  /\ raw.type = Str(<<"location">>)
  /\ raw.image.k = "obj"
  /\ raw.image.id # Absent
  /\ raw.image.filename # Absent
  /\ canon.media_id = Null

\* C20: a text message with a body is normalized to that body, verbatim,
\* with message_type "text".
C20_TextVerbatim ==
  (/\ wpc # "received"
   /\ raw.type = Str(<<"text">>)
   /\ raw.text.k = "obj"
   /\ raw.text.body.k = "str")
    => /\ canon.status = "ok"
       /\ canon.message_body = raw.text.body
       /\ canon.message_type = Str(<<"text">>)

\* a text message whose body starts with whitespace was normalized
C20_Witness ==
  /\ wpc = "parsed"
  /\ raw.type = Str(<<"text">>)
  /\ raw.text.k = "obj"
  /\ raw.text.body = Str(<<" ", "hi">>)
  /\ canon.message_body = Str(<<" ", "hi">>)

\* a scheme at position i of text t that is followed by a token which is
\* not whitespace
Cand(t, i) == t[i] = "http://" /\ i < Len(t) /\ t[i + 1] # " "

\* no whitespace from position a to position b
NoSpace(t, a, b) == \A k \in a..b : t[k] # " "

\* a match starts at i: no earlier scheme reaches i without whitespace
StartsMatch(t, i) ==
  Cand(t, i) /\ ~\E j \in 1..(i - 1) : Cand(t, j) /\ NoSpace(t, j, i)

\* the match that starts at i runs up to the next whitespace or the end
MatchAt(t, i) ==
  SubSeq(t, i, CHOOSE e \in i..Len(t) :
                 NoSpace(t, i, e) /\ (e = Len(t) \/ t[e + 1] = " "))

\* the matches that start at i or later, each followed by ", " when another
\* one comes after it
RECURSIVE LinksFrom(_, _)
LinksFrom(t, i) ==
  IF i > Len(t) THEN << >>
  ELSE IF ~StartsMatch(t, i) THEN LinksFrom(t, i + 1)
  ELSE IF LinksFrom(t, i + 1) = << >> THEN MatchAt(t, i)
  ELSE MatchAt(t, i) \o <<",", " ">> \o LinksFrom(t, i + 1)

\* C22: extract_links returns the matches of the pattern, scheme followed
\* by at least one character that is not whitespace, without overlap and
\* from left to right, joined with ", "; a URL that occurs twice is
\* returned twice.
C22_ExtractsEveryMatch ==
  (lpc \in {"once", "twice"} /\ txt.k = "str")
    => once = Str(LinksFrom(txt.v, 1))

\* the same URL twice in a text was extracted twice
C22_Witness ==
  /\ lpc = "once"
  /\ txt = Str(<<"http://", "a", " ", "http://", "a">>)
  /\ once = Str(<<"http://", "a", ",", " ", "http://", "a">>)

\* C23 as stated: extract_links applied to its own result returns that
\* result
C23_Idempotent == lpc = "twice" => twice = once

\* C25: extract_links of None and of the empty string is the empty string,
\* and the call does not raise.
C25_NullOrEmptyGivesEmpty ==
  (lpc # "start" /\ (txt = Null \/ txt = Str(<< >>)))
    => once = Str(<< >>)

\* extract_links was applied to None
C25_Witness ==
  /\ lpc = "once"
  /\ txt = Null
  /\ once = Str(<< >>)

\* the links of a body: none for None and for "", else its matches
LinksOf(body) ==
  IF body.k = "str" /\ body.v # << >> THEN Str(LinksFrom(body.v, 1))
  ELSE Str(<< >>)

\* C21: links is a function of the body alone.  In the canonical message,
\* in every stored row and in every message handed to the channel, links is
\* extract_links of that record's message_body.
C21_LinksFollowBody ==
  /\ canon.status = "ok" => canon.links = LinksOf(canon.message_body)
  /\ \A i \in 1..Len(stored) :
       stored[i].links = LinksOf(stored[i].message_body)
  /\ \A i \in 1..Len(channel) :
       JsonLoads(channel[i]).links = LinksOf(JsonLoads(channel[i]).message_body)

\* an image whose caption is a link was stored and published
C21_Witness ==
  /\ wpc = "published"
  /\ canon.message_type = Str(<<"image">>)
  /\ canon.links = Str(<<"http://", "c">>)
  /\ Len(stored) = 1
  /\ Len(channel) = 1

\* the kind of the nested object the parser reads for the type of the raw
\* message: "obj", "absent" or "null"
OwnObjKind ==
  IF raw.type.k = "str" /\ raw.type.v[1] \in ObjKeys
  THEN raw[raw.type.v[1]].k ELSE "absent"

\* C24: missing data does not make normalization raise.  When the nested
\* object of the message's type, or any of its fields, is missing, the
\* parser returns a canonical record, and the missing fields are null in it.
C24_MissingDataIsNull ==
  (wpc # "received" /\ envelope.ok /\ OwnObjKind # "null")
    => /\ canon.status = "ok"
       /\ (raw.type = Str(<<"text">>)
            /\ (raw.text.k = "absent" \/ raw.text.body = Absent))
             => canon.message_body = Null
       /\ \A type \in {"image", "document"} :
            raw.type = Str(<<type>>)
              => /\ raw[type].id = Absent => canon.media_id = Null
                 /\ raw[type].mime_type = Absent => canon.mime_type = Null
                 /\ raw[type].filename = Absent => canon.filename = Null

\* a document message without its "document" object was normalized
C24_Witness ==
  /\ wpc = "parsed"
  /\ raw.type = Str(<<"document">>)
  /\ raw.document.k = "absent"
  /\ canon.media_id = Null
  /\ canon.message_body = Str(<<"document", " ", "received">>)

\* C26: the canonical record of a text message has media_id, mime_type and
\* filename null, whatever other objects the raw message carries.
C26_TextHasNoMedia ==
  (wpc # "received" /\ raw.type = Str(<<"text">>) /\ canon.status = "ok")
    => /\ canon.media_id = Null
       /\ canon.mime_type = Null
       /\ canon.filename = Null

\* a text message that carries an image object with id, mime_type and
\* filename was normalized
C26_Witness ==
  /\ wpc = "parsed"
  /\ raw.type = Str(<<"text">>)
  /\ raw.text.k = "obj"
  /\ raw.image.k = "obj"
  /\ raw.image.id # Absent
  /\ raw.image.mime_type # Absent
  /\ raw.image.filename # Absent
  /\ canon.media_id = Null

\* C27: the message handed to the channel has the nine fields of the
\* canonical message, each once; its type, body, media and links fields are
\* those the normalizer returned, and all nine equal the fields of the row
\* stored for the same request.
C27_PublishedRecord ==
  wpc = "published"
    => LET j == channel[Len(channel)]
           m == JsonLoads(j)
           row == stored[Len(stored)]
       IN /\ Len(j) = 9
          /\ DOMAIN m = {"wa_id", "sender_name", "message_id", "message_type",
                         "message_body", "media_id", "mime_type", "filename",
                         "links"}
          /\ \A f \in {"message_type", "message_body", "media_id",
                        "mime_type", "filename", "links"} :
               m[f] = canon[f] /\ m[f] = row[f]
          /\ \A f \in {"wa_id", "sender_name", "message_id"} : m[f] = row[f]

\* a document with id, mime_type, filename and a caption that is a link was
\* stored and published
C27_Witness ==
  /\ wpc = "published"
  /\ canon.message_type = Str(<<"document">>)
  /\ canon.media_id # Null
  /\ canon.mime_type # Null
  /\ canon.filename # Null
  /\ canon.links.v # << >>
  /\ Len(channel) = 1

\* C28: publish_message does not raise.  It returns False, and nothing is
\* handed to the channel, when the publisher has no client or the publish
\* call fails; it returns True only when the message was handed to the
\* channel, exactly once.
C28_PublishResult ==
  pubRet # "none"
    => /\ pubRet \in {"true", "false"}
       /\ response = "logged"
       /\ ~pubClient => pubRet = "false"
       /\ pubRet = "false" => channel = << >>
       /\ pubRet = "true" => Len(channel) = 1

\* a connected publisher whose publish call failed returned False
C28_Witness ==
  /\ pubClient
  /\ pubRet = "false"
  /\ wpc = "unpublished"
  /\ channel = << >>
  /\ Len(stored) = 1

\* list a is list b with some entries left out, the others in b's order
RECURSIVE IsSubsequence(_, _)
IsSubsequence(a, b) ==
  IF a = << >> THEN TRUE
  ELSE IF b = << >> THEN FALSE
  ELSE IF Head(a) = Head(b) THEN IsSubsequence(Tail(a), Tail(b))
  ELSE IsSubsequence(a, Tail(b))

\* list b without its entry k
Without(b, k) == SubSeq(b, 1, k - 1) \o SubSeq(b, k + 1, Len(b))

\* C29: the registry keeps registration order.  add_processor puts the new
\* processor after every processor registered before it; remove_processor
\* takes out at most one entry, of the name it was given, and leaves the
\* others in their relative order; and a dispatch that runs to the end of a
\* registry it found unchanged invokes the entries of the registry in that
\* order.
C29_RegistrationOrder ==
  [][ /\ op'.kind = "add"
           => /\ IsSubsequence(processors, processors')
              /\ processors' = processors \o <<op'.arg>>
      /\ op'.kind = "remove"
           => /\ IsSubsequence(processors', processors)
              /\ processors' # processors
                   => \E k \in 1..Len(processors) :
                        /\ Name(processors[k]) = op'.arg
                        /\ processors' = Without(processors, k)
      /\ (pc = "setup" /\ pc' = "dispatch") => disp0' = processors
      /\ (Exhausted' /\ ~touched') => invoked' = processors'
    ]_vars

\* the default registry after add_processor(A1) and
\* remove_processor("LoggingProcessor"): a dispatch invoked the notification
\* processor and then A1
C29_Witness ==
  /\ ~shared
  /\ Exhausted
  /\ ~touched
  /\ processors = <<"Email", "A1">>
  /\ invoked = processors

\* C30 as stated: the subscriber alone owns its processor list, so the
\* registry changes only in add_processor and remove_processor, and a change
\* the host makes to the list it passed to the constructor does not reach it
C30_OwnedExclusively ==
  [][processors' # processors => op'.kind \in {"add", "remove"}]_vars

\* C31: the log processor renders a string body with bounded length.  A
\* body of more than 50 characters is shown as its first 50 characters and
\* the marker "..."; a body of 50 characters or fewer is shown as it is;
\* the rendering is never longer than 53 characters.
C31_BoundedRendering ==
  (gpc = "done" /\ logBody.k = "str")
    => /\ truncated_body.k = "str"
       /\ Len(truncated_body.v) <= 53
       /\ Len(logBody.v) <= 50 => truncated_body.v = logBody.v
       /\ Len(logBody.v) > 50
            => /\ Len(truncated_body.v) = 53
               /\ \A i \in 1..50 : truncated_body.v[i] = logBody.v[i]
               /\ \A i \in 51..53 : truncated_body.v[i] = "."

\* a body of 52 characters was rendered as its first 50 and the marker
C31_Witness ==
  /\ gpc = "done"
  /\ logBody.k = "str"
  /\ Len(logBody.v) = 52
  /\ logBody.v[50] = "a"
  /\ Len(truncated_body.v) = 53

\* no two entries of a sequence of ids are the same id
DistinctIds(ids) ==
  \A i, j \in 1..Len(ids) : (i # j /\ ids[i] # Null) => ids[i] # ids[j]

\* the message_id of every stored row, and of every published message
StoredIds(rows) == [i \in 1..Len(rows) |-> rows[i].message_id]
PublishedIds(msgs) == [i \in 1..Len(msgs) |-> JsonLoads(msgs[i]).message_id]

\* C32: a request is published only after its row was committed.  The
\* channel gets a message only in the step that follows the commit of the
\* row of the same request, and gets one message then; a request that fails
\* in normalization or in the commit, the rejection of a message_id that is
\* already stored included, publishes nothing; and no message_id is stored
\* twice or published twice.
C32_PublishAfterCommit ==
  [][ /\ channel' # channel
           => /\ wpc = "stored"
              /\ wpc' = "published"
              /\ stored # << >>
              /\ stored[Len(stored)] = DbRecord(envelope, canon)
              /\ channel' = Append(channel, channel'[Len(channel')])
              /\ JsonLoads(channel'[Len(channel')]).message_id
                   = stored[Len(stored)].message_id
      /\ wpc' = "failed" => channel' = channel
      /\ (/\ wpc = "parsed"
          /\ wpc' # "parsed"
          /\ Rejected(stored, DbRecord(envelope, canon)))
           => (wpc' = "failed" /\ stored' = stored /\ response' = "error")
      /\ DistinctIds(StoredIds(stored'))
      /\ DistinctIds(PublishedIds(channel'))
    ]_vars

\* the second request carries the message_id of the first, which was stored
\* and published: its commit was rejected and nothing more was published
C32_Witness ==
  /\ events = 2
  /\ wpc = "failed"
  /\ canon.status = "ok"
  /\ envelope.id # Absent
  /\ Len(stored) = 1
  /\ stored[1].message_id = envelope.id
  /\ Len(channel) = 1
  /\ response = "error"

\* C35: a publisher whose connection attempt at construction failed stays
\* without a client.  Nothing is ever published, publish_message returns
\* False whether or not the server is available by then, and the handler
\* answers "logged" for every request whose row it committed.
C35_NeverConnectsLater ==
  [][ ~pubClient
        => /\ ~pubClient'
           /\ channel' = << >>
           /\ pubRet' \in {"none", "false"}
           /\ (wpc = "stored" /\ wpc' # "stored")
                => /\ wpc' = "unpublished"
                   /\ pubRet' = "false"
                   /\ response' = "logged"
                   /\ stored' = stored
                   /\ stored[Len(stored)] = DbRecord(envelope, canon)
    ]_vars

\* the server came up after the publisher had failed to connect: the second
\* request was stored and answered, and nothing was published
C35_Witness ==
  /\ ~pubClient
  /\ broker
  /\ events = 2
  /\ wpc = "unpublished"
  /\ pubRet = "false"
  /\ response = "logged"
  /\ Len(stored) = 2
  /\ channel = << >>

\* C33: dispatch does not change the registry.  A step of process_message
\* in which no processor calls add_processor or remove_processor leaves the
\* list as it is, whatever the processor returned or raised; a processor
\* that returned False or raised an Exception is still registered at its
\* position; and the next call of process_message starts from the list the
\* call before it left.
C33_DispatchKeepsRegistry ==
  [][ /\ (pc = "dispatch" /\ op'.kind \notin {"add", "remove"})
           => processors' = processors
      /\ (pc = "dispatch" /\ ~touched /\ op'.kind \notin {"add", "remove"})
           => processors' = disp0
      /\ (/\ pc = "dispatch"
          /\ lastOut' \in {"false", "exc"}
          /\ op'.kind \notin {"add", "remove"})
           => /\ idx' \in 1..Len(processors')
              /\ processors'[idx'] = invoked'[Len(invoked')]
      /\ (pc # "dispatch" /\ pc' = "dispatch")
           => (processors' = processors /\ disp0' = processors /\ idx' = 0)
    ]_vars

\* the second message went through the default registry, after a first one
\* that did: the log processor raised, the list is what it was at the call
\* and both processors were invoked
C33_Witness ==
  /\ nmsg = 2
  /\ Len(fate) = 1
  /\ Exhausted
  /\ ~touched
  /\ lastOut = "exc"
  /\ processors = <<"Email", "Log">>
  /\ disp0 = processors
  /\ invoked = processors

\* C34: only 'message' events are dispatched.  The event that confirms the
\* subscription starts no call of process_message and invokes no processor;
\* a call of process_message from the loop starts at a 'message' event,
\* once for the event; and whenever the loop waits for an event, every
\* 'message' event so far has ended in one call or in one drop.
C34_OnlyMessagesDispatched ==
  [][ /\ (pc = "listen" /\ ~confirmed /\ confirmed')
           => /\ pc' = "listen"
              /\ nmsg' = nmsg
              /\ invoked' = invoked
              /\ fate' = fate
      /\ (pc = "listen" /\ pc' = "dispatch")
           => /\ confirmed
              /\ confirmed'
              /\ caller' = "loop"
              /\ nmsg' = nmsg + 1
              /\ idx' = 0
              /\ invoked' = << >>
      /\ AwaitingMessage' => Len(fate') = nmsg'
    ]_vars

\* after the confirmation of the subscription two 'message' events were
\* each handed to process_message once, and the loop waits for the next
C34_Witness ==
  /\ AwaitingMessage
  /\ confirmed
  /\ nmsg = 2
  /\ fate = <<"loop", "loop">>

====
